---- MODULE Spec2Model ----
(***************************************************************************)
(* MidiStreamParser of hardware/midi/midi.h: a byte-at-a-time decoder of   *)
(* the MIDI wire protocol that calls back into a static Device.            *)
(***************************************************************************)
EXTENDS Integers, Sequences, FiniteSets, TLC

VARIABLES
    running_status_,      \* uint8_t running_status_
    data_,                \* uint8_t data_[3]
    data_size_,           \* uint8_t data_size_
    expected_data_size_,  \* uint8_t expected_data_size_
    born,                 \* history: the parser as constructed (SpecSeq)
    last,                 \* history: the last PushByte call, its byte and its results
    msg,                  \* history: the message in progress, from the bytes as sent
    framing,              \* history: the last of SysExStart and SysExEnd called
    calls                 \* history: every PushByte call since construction (SpecSeq)

vars == <<running_status_, data_, data_size_, expected_data_size_,
          born, last, msg, framing, calls>>

----------------------------------------------------------------------------
(* Bounds of the model.                                                     *)

\* Longest byte sequence pushed into one parser under SpecSeq.
MaxLen == 4

\* Values an uninitialised uint8_t of data_ may hold after construction.
Garbage == {0, 255}

\* Bytes pushed under Spec: every status type once (on channels 0..5), every
\* System Common status, every realtime byte, and three data bytes, 0 among
\* them for the NoteOn of velocity 0.
DataBytes == {0, 60, 64}
ChannelStatusBytes == {129, 144, 162, 176, 196, 213, 224}
SystemStatusBytes == 240 .. 247
RealtimeBytes == 248 .. 255
Bytes == DataBytes \cup ChannelStatusBytes \cup SystemStatusBytes \cup RealtimeBytes

\* Status bytes of SpecTable, whose two data bytes range over 0x00-0x7F.
TableStatusBytes == {176, 224}

\* Bytes pushed under SpecSeq, where the whole history is kept.
SeqBytes == {1, 2, 144, 240, 247, 248, 253}

----------------------------------------------------------------------------
(* uint8_t helpers.                                                         *)

Hi(byte) == (byte \div 16) * 16   \* byte & 0xf0
Lo(byte) == byte % 16             \* byte & 0x0f

----------------------------------------------------------------------------
(* The parser.                                                              *)

\* The fields of a MidiStreamParser as one record.
Parser(rs, d, ds, eds) ==
    [running_status_ |-> rs, data_ |-> d, data_size_ |-> ds,
     expected_data_size_ |-> eds]

\* ExpectedDataSize with lo >= 3 in place of lo >= 4: 0xf3 takes no data.
ExpectedDataSize_F3None(byte) ==
    LET hi == Hi(byte)
        lo == Lo(byte)
    IN  IF hi \in {128, 144, 160, 176} THEN 2
        ELSE IF hi \in {192, 208} THEN 1
        ELSE IF hi = 224 THEN 2
        ELSE IF hi = 240
             THEN IF lo > 0 /\ lo < 3 THEN 2
                  ELSE IF lo >= 3 THEN 0
                  ELSE 1
        ELSE 1

\* The value of expected_data_size_ after the switch on a status byte.
ExpectedDataSize(byte) ==
    LET hi == Hi(byte)
        lo == Lo(byte)
    IN  IF hi \in {128, 144, 160, 176} THEN 2
        ELSE IF hi \in {192, 208} THEN 1
        ELSE IF hi = 224 THEN 2
        ELSE IF hi = 240
             THEN IF lo > 0 /\ lo < 3 THEN 2
                  ELSE IF lo >= 4 THEN 0
                  ELSE 1
        ELSE 1

\* ControlChangeEvent with the channel modes starting one case late, at 0x79.
ControlChangeEvent_LateMode(lo, d) ==
    IF d[0] = 121 THEN <<"ResetAllControllers", lo>>
    ELSE IF d[0] = 122 THEN <<"LocalControl", lo, d[1]>>
    ELSE IF d[0] = 123 THEN <<"AllNotesOff", lo>>
    ELSE IF d[0] = 124 THEN <<"OmniModeOff", lo>>
    ELSE IF d[0] = 125 THEN <<"OmniModeOn", lo>>
    ELSE IF d[0] = 126 THEN <<"MonoModeOn", lo, d[1]>>
    ELSE IF d[0] = 127 THEN <<"PolyModeOn", lo>>
    ELSE <<"ControlChange", lo, d[0], d[1]>>

\* The 0xb0 case of MessageReceived: channel mode messages and ControlChange.
ControlChangeEvent(lo, d) ==
    IF d[0] = 120 THEN <<"AllSoundOff", lo>>
    ELSE IF d[0] = 121 THEN <<"ResetAllControllers", lo>>
    ELSE IF d[0] = 122 THEN <<"LocalControl", lo, d[1]>>
    ELSE IF d[0] = 123 THEN <<"AllNotesOff", lo>>
    ELSE IF d[0] = 124 THEN <<"OmniModeOff", lo>>
    ELSE IF d[0] = 125 THEN <<"OmniModeOn", lo>>
    ELSE IF d[0] = 126 THEN <<"MonoModeOn", lo, d[1]>>
    ELSE IF d[0] = 127 THEN <<"PolyModeOn", lo>>
    ELSE <<"ControlChange", lo, d[0], d[1]>>

\* SystemEvents with ActiveSensing one case early, on the reserved 0xfd.
SystemEvents_OffByOne(lo, d) ==
    IF lo = 0 THEN << <<"SysExByte", d[0]>> >>
    ELSE IF lo \in 1 .. 6 THEN << >>
    ELSE IF lo = 7 THEN << <<"SysExEnd">> >>
    ELSE IF lo = 8 THEN << <<"Clock">> >>
    ELSE IF lo = 9 THEN << >>
    ELSE IF lo = 10 THEN << <<"Start">> >>
    ELSE IF lo = 11 THEN << <<"Continue">> >>
    ELSE IF lo = 12 THEN << <<"Stop">> >>
    ELSE IF lo = 13 THEN << <<"ActiveSensing">> >>
    ELSE IF lo = 15 THEN << <<"Reset">> >>
    ELSE << >>

\* The 0xf0 case of MessageReceived: SysEx, System Common and realtime.
SystemEvents(lo, d) ==
    IF lo = 0 THEN << <<"SysExByte", d[0]>> >>
    ELSE IF lo \in 1 .. 6 THEN << >>
    ELSE IF lo = 7 THEN << <<"SysExEnd">> >>
    ELSE IF lo = 8 THEN << <<"Clock">> >>
    ELSE IF lo = 9 THEN << >>
    ELSE IF lo = 10 THEN << <<"Start">> >>
    ELSE IF lo = 11 THEN << <<"Continue">> >>
    ELSE IF lo = 12 THEN << <<"Stop">> >>
    ELSE IF lo = 14 THEN << <<"ActiveSensing">> >>
    ELSE IF lo = 15 THEN << <<"Reset">> >>
    ELSE << >>

\* DispatchEvents shifting data_[1] as the uint8_t it is, without the cast.
DispatchEvents_NarrowBend(status, d) ==
    LET hi == Hi(status)
        lo == Lo(status)
    IN  IF hi = 128 THEN << <<"NoteOff", lo, d[0], d[1]>> >>
        ELSE IF hi = 144
             THEN IF d[1] # 0 THEN << <<"NoteOn", lo, d[0], d[1]>> >>
                  ELSE << <<"NoteOff", lo, d[0], 0>> >>
        ELSE IF hi = 160 THEN << <<"Aftertouch", lo, d[0], d[1]>> >>
        ELSE IF hi = 176 THEN << ControlChangeEvent(lo, d) >>
        ELSE IF hi = 192 THEN << <<"ProgramChange", lo, d[0]>> >>
        ELSE IF hi = 208 THEN << <<"Aftertouch", lo, d[0]>> >>
        ELSE IF hi = 224
             THEN << <<"PitchBend", lo, (((d[1] * 128) % 256) + d[0]) % 65536>> >>
        ELSE IF hi = 240 THEN SystemEvents(lo, d)
        ELSE << >>

\* DispatchEvents passing a NoteOn of velocity 0 through as it came.
DispatchEvents_RawNoteOn(status, d) ==
    LET hi == Hi(status)
        lo == Lo(status)
    IN  IF hi = 128 THEN << <<"NoteOff", lo, d[0], d[1]>> >>
        ELSE IF hi = 144 THEN << <<"NoteOn", lo, d[0], d[1]>> >>
        ELSE IF hi = 160 THEN << <<"Aftertouch", lo, d[0], d[1]>> >>
        ELSE IF hi = 176 THEN << ControlChangeEvent(lo, d) >>
        ELSE IF hi = 192 THEN << <<"ProgramChange", lo, d[0]>> >>
        ELSE IF hi = 208 THEN << <<"Aftertouch", lo, d[0]>> >>
        ELSE IF hi = 224
             THEN << <<"PitchBend", lo, (((d[1] * 128) % 65536) + d[0]) % 65536>> >>
        ELSE IF hi = 240 THEN SystemEvents(lo, d)
        ELSE << >>

\* The switch (hi) of MessageReceived, reached when the channel check passed.
DispatchEvents(status, d) ==
    LET hi == Hi(status)
        lo == Lo(status)
    IN  IF hi = 128 THEN << <<"NoteOff", lo, d[0], d[1]>> >>
        ELSE IF hi = 144
             THEN IF d[1] # 0 THEN << <<"NoteOn", lo, d[0], d[1]>> >>
                  ELSE << <<"NoteOff", lo, d[0], 0>> >>
        ELSE IF hi = 160 THEN << <<"Aftertouch", lo, d[0], d[1]>> >>
        ELSE IF hi = 176 THEN << ControlChangeEvent(lo, d) >>
        ELSE IF hi = 192 THEN << <<"ProgramChange", lo, d[0]>> >>
        ELSE IF hi = 208 THEN << <<"Aftertouch", lo, d[0]>> >>
        ELSE IF hi = 224
             THEN << <<"PitchBend", lo, (((d[1] * 128) % 65536) + d[0]) % 65536>> >>
        ELSE IF hi = 240 THEN SystemEvents(lo, d)
        ELSE << >>

\* MessageReceived reporting data_[1] instead of data_[0] as the bozo byte.
MessageReceived_BozoStale(status, d, check) ==
    LET bozo == IF status = 0 THEN << <<"BozoByte", d[1]>> >> ELSE << >>
    IN  IF Hi(status) # 240 /\ ~check
        THEN bozo
        ELSE bozo \o DispatchEvents(status, d)

\* MessageReceived(status): the Device callbacks it makes, in order.  check is
\* the value Device::CheckChannel returns if it is called.
MessageReceived(status, d, check) ==
    LET bozo == IF status = 0 THEN << <<"BozoByte", d[0]>> >> ELSE << >>
    IN  IF Hi(status) # 240 /\ ~check
        THEN bozo
        ELSE bozo \o DispatchEvents(status, d)

\* PushRealtime restarting the data count, as a status byte does.
PushRealtime_ResetsCount(p, byte, check) ==
    [parser |-> [p EXCEPT !.data_size_ = 0], value |-> byte,
     events |-> MessageReceived(byte, p.data_, check), index |-> -1, asked |-> FALSE]

\* PushRealtime storing the byte as running status, as a status byte does.
PushRealtime_SetsStatus(p, byte, check) ==
    [parser |-> [p EXCEPT !.running_status_ = byte], value |-> byte,
     events |-> MessageReceived(byte, p.data_, check), index |-> -1, asked |-> FALSE]

\* Lines 102-104: a realtime byte is passed through.
PushRealtime(p, byte, check) ==
    [parser |-> p, value |-> byte,
     events |-> MessageReceived(byte, p.data_, check), index |-> -1, asked |-> FALSE]

\* SysExFraming ending a SysEx on 0xf7 only, never implicitly.
SysExFraming_ExplicitOnly(rs, byte) ==
    (IF rs = 240 /\ byte = 247 THEN << <<"SysExEnd">> >> ELSE << >>)
    \o (IF byte = 240 THEN << <<"SysExStart">> >> ELSE << >>)

\* SysExFraming ending a SysEx whether or not one is in progress.
SysExFraming_Unguarded(rs, byte) ==
    << <<"SysExEnd">> >>
    \o (IF byte = 240 THEN << <<"SysExStart">> >> ELSE << >>)

\* SysExFraming testing the old running status for SysExStart too, as if
\* line 136 came before line 135.
SysExFraming_StaleStart(rs, byte) ==
    (IF rs = 240 THEN << <<"SysExEnd">> >> ELSE << >>)
    \o (IF rs = 240 THEN << <<"SysExStart">> >> ELSE << >>)

\* Lines 132-138: the SysEx framing callbacks made by a status byte.
SysExFraming(rs, byte) ==
    (IF rs = 240 THEN << <<"SysExEnd">> >> ELSE << >>)
    \o (IF byte = 240 THEN << <<"SysExStart">> >> ELSE << >>)

\* PushStatus without data_size_ = 0.
PushStatus_KeepsCount(p, byte) ==
    [parser |-> Parser(byte, p.data_, p.data_size_, ExpectedDataSize(byte)),
     events |-> SysExFraming(p.running_status_, byte), index |-> -1]

\* Lines 106-138: a status byte below 0xf8.
PushStatus(p, byte) ==
    [parser |-> Parser(byte, p.data_, 0, ExpectedDataSize(byte)),
     events |-> SysExFraming(p.running_status_, byte), index |-> -1]

\* Lines 139-141: a data byte, data_[data_size_++] = byte.  A write outside
\* data_[3] has no defined effect; index records where it was aimed.
PushData(p, byte) ==
    [parser |-> Parser(p.running_status_,
                       IF p.data_size_ \in 0 .. 2
                       THEN [p.data_ EXCEPT ![p.data_size_] = byte]
                       ELSE p.data_,
                       (p.data_size_ + 1) % 256,
                       p.expected_data_size_),
     events |-> << >>, index |-> p.data_size_]

\* Completion with > in place of >= in the test.
Completion_StrictlyMore(q, check) ==
    IF q.data_size_ > q.expected_data_size_
    THEN [parser |-> IF q.running_status_ > 240
                     THEN Parser(0, q.data_, 0, 0)
                     ELSE Parser(q.running_status_, q.data_, 0, q.expected_data_size_),
          value |-> q.running_status_,
          events |-> MessageReceived(q.running_status_, q.data_, check),
          asked |-> Hi(q.running_status_) # 240]
    ELSE [parser |-> q, value |-> 0, events |-> << >>, asked |-> FALSE]

\* Completion clearing running status after every message, not after the
\* one-shot ones only.
Completion_ClearsAlways(q, check) ==
    IF q.data_size_ >= q.expected_data_size_
    THEN [parser |-> Parser(0, q.data_, 0, 0),
          value |-> q.running_status_,
          events |-> MessageReceived(q.running_status_, q.data_, check),
          asked |-> Hi(q.running_status_) # 240]
    ELSE [parser |-> q, value |-> 0, events |-> << >>, asked |-> FALSE]

\* Completion without lines 146-149: nothing is cleared.
Completion_KeepsOneShot(q, check) ==
    IF q.data_size_ >= q.expected_data_size_
    THEN [parser |-> Parser(q.running_status_, q.data_, 0, q.expected_data_size_),
          value |-> q.running_status_,
          events |-> MessageReceived(q.running_status_, q.data_, check),
          asked |-> Hi(q.running_status_) # 240]
    ELSE [parser |-> q, value |-> 0, events |-> << >>, asked |-> FALSE]

\* Completion with >= 0xf0 in place of > 0xf0 at line 146.
Completion_ClearsSysEx(q, check) ==
    IF q.data_size_ >= q.expected_data_size_
    THEN [parser |-> IF q.running_status_ >= 240
                     THEN Parser(0, q.data_, 0, 0)
                     ELSE Parser(q.running_status_, q.data_, 0, q.expected_data_size_),
          value |-> q.running_status_,
          events |-> MessageReceived(q.running_status_, q.data_, check),
          asked |-> Hi(q.running_status_) # 240]
    ELSE [parser |-> q, value |-> 0, events |-> << >>, asked |-> FALSE]

\* Completion without data_size_ = 0 at line 145.
Completion_KeepsCount(q, check) ==
    IF q.data_size_ >= q.expected_data_size_
    THEN [parser |-> IF q.running_status_ > 240
                     THEN Parser(0, q.data_, q.data_size_, 0)
                     ELSE Parser(q.running_status_, q.data_, q.data_size_,
                                 q.expected_data_size_),
          value |-> q.running_status_,
          events |-> MessageReceived(q.running_status_, q.data_, check),
          asked |-> Hi(q.running_status_) # 240]
    ELSE [parser |-> q, value |-> 0, events |-> << >>, asked |-> FALSE]

\* Completion with value = running_status_ outside the if.
Completion_ValueAlways(q, check) ==
    IF q.data_size_ >= q.expected_data_size_
    THEN [parser |-> IF q.running_status_ > 240
                     THEN Parser(0, q.data_, 0, 0)
                     ELSE Parser(q.running_status_, q.data_, 0, q.expected_data_size_),
          value |-> q.running_status_,
          events |-> MessageReceived(q.running_status_, q.data_, check),
          asked |-> Hi(q.running_status_) # 240]
    ELSE [parser |-> q, value |-> q.running_status_, events |-> << >>, asked |-> FALSE]

\* Completion given up, data_size_ not reset, when the channel is refused.
Completion_ReturnsEarly(q, check) ==
    IF q.data_size_ >= q.expected_data_size_
    THEN IF Hi(q.running_status_) # 240 /\ ~check
         THEN [parser |-> q, value |-> q.running_status_,
               events |-> MessageReceived(q.running_status_, q.data_, check),
               asked |-> TRUE]
         ELSE [parser |-> IF q.running_status_ > 240
                          THEN Parser(0, q.data_, 0, 0)
                          ELSE Parser(q.running_status_, q.data_, 0, q.expected_data_size_),
               value |-> q.running_status_,
               events |-> MessageReceived(q.running_status_, q.data_, check),
               asked |-> Hi(q.running_status_) # 240]
    ELSE [parser |-> q, value |-> 0, events |-> << >>, asked |-> FALSE]

\* Lines 142-150: the completion check on the parser q left by the byte.
Completion(q, check) ==
    IF q.data_size_ >= q.expected_data_size_
    THEN [parser |-> IF q.running_status_ > 240
                     THEN Parser(0, q.data_, 0, 0)
                     ELSE Parser(q.running_status_, q.data_, 0, q.expected_data_size_),
          value |-> q.running_status_,
          events |-> MessageReceived(q.running_status_, q.data_, check),
          asked |-> Hi(q.running_status_) # 240]
    ELSE [parser |-> q, value |-> 0, events |-> << >>, asked |-> FALSE]

\* PushByte(byte) on parser p: the parser afterwards, the value returned, the
\* Device callbacks made in order, the index of data_ written (-1: none) and
\* whether Device::CheckChannel was asked.
PushByte(p, byte, check) ==
    IF byte >= 248
    THEN PushRealtime(p, byte, check)
    ELSE LET s == IF byte >= 128 THEN PushStatus(p, byte) ELSE PushData(p, byte)
             c == Completion(s.parser, check)
         IN  [parser |-> c.parser, value |-> c.value,
              events |-> s.events \o c.events, index |-> s.index,
              asked |-> c.asked]

\* The parser held in the variables.
Self == Parser(running_status_, data_, data_size_, expected_data_size_)

----------------------------------------------------------------------------
(* History of the message in progress.  It is kept from the bytes as they   *)
(* were sent and the protocol's data byte counts, never from the parser's   *)
(* fields, so that the parser can be compared against it.                   *)

NoParser == Parser(0, [i \in 0 .. 2 |-> 0], 0, 0)
NoCall == [byte |-> -1, check |-> TRUE, value |-> 0, events |-> << >>,
           index |-> -1, asked |-> FALSE]

\* status: the status in force (0: none); bytes: the data bytes sent for the
\* message so far; complete: the last byte pushed completed it; found: what
\* the status byte interrupted ("running": no status byte, running status).
NoMsg == [status |-> 0, bytes |-> << >>, complete |-> FALSE, found |-> "nothing"]

\* Data bytes a status byte announces (MIDI 1.0; 0xF1 counted as 2).
DataBytesOf(status) ==
    IF status \in 128 .. 191 \/ status \in 224 .. 239 THEN 2
    ELSE IF status \in 192 .. 223 THEN 1
    ELSE IF status \in {240, 243} THEN 1
    ELSE IF status \in {241, 242} THEN 2
    ELSE 0

\* The message in progress once the previous call is over: a completed
\* message leaves its status in force unless it is a one-shot 0xF1-0xF7.
Carried(m) ==
    IF m.complete
    THEN [status |-> IF m.status > 240 THEN 0 ELSE m.status,
          bytes |-> << >>, complete |-> FALSE,
          found |-> IF m.status > 240 THEN "nothing" ELSE "running"]
    ELSE m

Framing(m, byte) ==
    LET c == Carried(m)
    IN  IF byte >= 248 THEN c
        ELSE IF byte >= 128
        THEN [status |-> byte, bytes |-> << >>,
              complete |-> DataBytesOf(byte) = 0,
              found |-> IF c.status = 240 THEN "sysex"
                        ELSE IF c.bytes # << >> THEN "partial"
                        ELSE "nothing"]
        ELSE IF c.status = 0 THEN c
        ELSE [c EXCEPT !.bytes = Append(c.bytes, byte),
                       !.complete = (Len(c.bytes) + 1 = DataBytesOf(c.status))]

\* The last SysEx framing callback once events have been made after f
\* ("none": neither SysExStart nor SysExEnd so far).
RECURSIVE AfterEvents(_, _)
AfterEvents(f, events) ==
    IF events = << >> THEN f
    ELSE AfterEvents(IF Head(events)[1] = "SysExStart" THEN "start"
                     ELSE IF Head(events)[1] = "SysExEnd" THEN "end"
                     ELSE f,
                     Tail(events))

\* The data bytes of a message as the array MessageReceived reads.
AsData(bytes) == [i \in 0 .. 2 |-> IF i < Len(bytes) THEN bytes[i + 1] ELSE 0]

----------------------------------------------------------------------------
(* Specifications.                                                          *)

\* MidiStreamParser(): data_ is left uninitialised.
Constructed ==
    /\ running_status_ = 0
    /\ data_ \in [0 .. 2 -> Garbage]
    /\ data_size_ = 0
    /\ expected_data_size_ = 0
    /\ last = NoCall
    /\ msg = NoMsg
    /\ framing = "none"
    /\ calls = << >>

Init ==
    /\ Constructed
    /\ born = NoParser

\* One call of PushByte(byte); check is what Device::CheckChannel answers,
\* and is TRUE when the call does not ask.
Call(byte, check) ==
    LET r == PushByte(Self, byte, check)
    IN  /\ r.asked \/ check
        /\ running_status_' = r.parser.running_status_
        /\ data_' = r.parser.data_
        /\ data_size_' = r.parser.data_size_
        /\ expected_data_size_' = r.parser.expected_data_size_
        /\ last' = [byte |-> byte, check |-> check, value |-> r.value,
                    events |-> r.events, index |-> r.index, asked |-> r.asked]
        /\ msg' = Framing(msg, byte)
        /\ framing' = AfterEvents(framing, r.events)
        /\ UNCHANGED born

\* A parser fed any byte of Bytes, for ever.
Feed ==
    \E byte \in Bytes, check \in BOOLEAN :
        /\ Call(byte, check)
        /\ UNCHANGED calls

Next == Feed

Spec == Init /\ [][Next]_vars

\* A parser over the default MidiDevice, whose CheckChannel returns 1, fed
\* at most MaxLen bytes of SeqBytes, every call recorded.
FeedLogged ==
    \E byte \in SeqBytes :
        /\ Len(calls) < MaxLen
        /\ Call(byte, TRUE)
        /\ calls' = Append(calls, [byte |-> byte, value |-> last'.value,
                                   events |-> last'.events])

InitSeq ==
    /\ Constructed
    /\ born = Self

NextSeq == FeedLogged

SpecSeq == InitSeq /\ [][NextSeq]_vars

\* A parser into which a status byte of TableStatusBytes and any first data
\* byte have been pushed.
InitTable ==
    \E g \in [0 .. 2 -> Garbage], status \in TableStatusBytes, d0 \in 0 .. 127 :
        LET s == PushByte(Parser(0, g, 0, 0), status, TRUE)
            r == PushByte(s.parser, d0, TRUE)
        IN  /\ running_status_ = r.parser.running_status_
            /\ data_ = r.parser.data_
            /\ data_size_ = r.parser.data_size_
            /\ expected_data_size_ = r.parser.expected_data_size_
            /\ last = [byte |-> d0, check |-> TRUE, value |-> r.value,
                       events |-> r.events, index |-> r.index, asked |-> r.asked]
            /\ msg = Framing(Framing(NoMsg, status), d0)
            /\ framing = AfterEvents("none", s.events \o r.events)
            /\ born = NoParser
            /\ calls = << >>

\* The second data byte, any of 0x00-0x7F, is pushed.
FeedSecond ==
    \E byte \in 0 .. 127, check \in BOOLEAN :
        /\ ~msg.complete
        /\ Call(byte, check)
        /\ UNCHANGED calls

NextTable == FeedSecond

SpecTable == InitTable /\ [][NextTable]_vars

----------------------------------------------------------------------------
(* Operators over the recorded calls of SpecSeq.                            *)

\* The bytes pushed so far, in order.
Pushed == [i \in 1 .. Len(calls) |-> calls[i].byte]

\* Every Device callback made so far, in order.
RECURSIVE Flatten(_)
Flatten(cs) == IF cs = << >> THEN << >> ELSE Head(cs).events \o Flatten(Tail(cs))

Trace == Flatten(calls)

\* A sequence without its i-th element.
Without(seq, i) == SubSeq(seq, 1, i - 1) \o SubSeq(seq, i + 1, Len(seq))

\* The calls made, and the parser left, by pushing bytes one after the other
\* into parser p over the default MidiDevice.
RECURSIVE RunFrom(_, _)
RunFrom(p, bytes) ==
    IF bytes = << >> THEN [parser |-> p, calls |-> << >>]
    ELSE LET r == PushByte(p, Head(bytes), TRUE)
             rest == RunFrom(r.parser, Tail(bytes))
         IN  [parser |-> rest.parser,
              calls |-> << [byte |-> Head(bytes), value |-> r.value,
                            events |-> r.events] >> \o rest.calls]

----------------------------------------------------------------------------
(* Claims.                                                                  *)

\* C1: PushByte returns 0 on every non-realtime byte that does not complete
\* a message, and the status of the completed message (0x80-0xF7) on the
\* byte that completes it, with or without a status byte of its own.
C1_ReturnsCompletedStatus ==
    last.byte \in 0 .. 247 =>
        /\ last.value = (IF msg.complete THEN msg.status ELSE 0)
        /\ msg.complete => msg.status \in 128 .. 247

\* A second NoteOn completed under running status returned 0x90.
C1_Witness ==
    /\ msg.complete /\ msg.found = "running" /\ msg.status = 144
    /\ last.value = 144 /\ last.byte = 64

\* C2: F0 d1 .. dn F7 pushed into a fresh parser invokes SysExStart, then
\* SysExByte(d1) .. SysExByte(dn), then SysExEnd exactly once, and nothing else.
C2_SysExEndOnce ==
    LET n == Len(calls)
    IN  (/\ n >= 2
         /\ Pushed[1] = 240
         /\ Pushed[n] = 247
         /\ \A i \in 2 .. n - 1 : Pushed[i] < 128)
        => Trace = << <<"SysExStart">> >>
                   \o [i \in 1 .. n - 2 |-> <<"SysExByte", Pushed[i + 1]>>]
                   \o << <<"SysExEnd">> >>

\* C3: a status byte 0x80-0xEF pushed while running status is 0xF0 invokes
\* SysExEnd once and nothing else, and the message it opens then decodes
\* from its own data bytes: nothing on a data byte that does not complete
\* it, its dispatch-table event on the one that does.
C3_ImplicitSysExEnd ==
    [][/\ (running_status_ = 240 /\ last'.byte \in 128 .. 239)
            => last'.events = << <<"SysExEnd">> >> /\ msg'.found = "sysex"
       /\ (msg'.found = "sysex" /\ msg'.status \in 128 .. 239 /\ last'.byte < 128)
            => IF msg'.complete
               THEN last'.check =>
                        last'.events = DispatchEvents(msg'.status, AsData(msg'.bytes))
               ELSE last'.events = << >>]_vars

\* F0 .. 90 3C 40: the NoteOn that cut the SysEx short was dispatched.
C3_Witness ==
    /\ msg.found = "sysex" /\ msg.complete
    /\ last.events = << <<"NoteOn", 0, 60, 64>> >>

\* C4 as stated: one call of PushByte invokes at most one event callback.
C4_AtMostOneCallback == Len(last.events) <= 1

\* C4 as amended: one call of PushByte invokes at most one event callback,
\* unless the byte is 0xF0 or 0xF7 and running status is 0xF0: that call
\* invokes two, SysExEnd first and then SysExStart (0xF0) or SysExEnd (0xF7).
C4_AtMostOneOutsideSysEx ==
    [][IF running_status_ = 240 /\ last'.byte \in {240, 247}
       THEN last'.events = << <<"SysExEnd">>,
                              IF last'.byte = 240 THEN <<"SysExStart">>
                                                  ELSE <<"SysExEnd">> >>
       ELSE Len(last'.events) <= 1]_vars

\* F0 F0: the second 0xF0 ended one SysEx and started the next.
C4_Witness ==
    /\ last.byte = 240
    /\ last.events = << <<"SysExEnd">>, <<"SysExStart">> >>

\* C5: a realtime byte 0xF8-0xFF leaves running_status_, data_, data_size_
\* and expected_data_size_ unchanged.
C5_RealtimeKeepsState ==
    [][last'.byte >= 248 =>
         UNCHANGED <<running_status_, data_, data_size_, expected_data_size_>>]_vars

\* A realtime byte arrived between the two data bytes of a NoteOn.
C5_Witness ==
    /\ last.byte >= 248
    /\ running_status_ = 144 /\ data_size_ = 1 /\ expected_data_size_ = 2

\* C6: taking a realtime byte out of the bytes pushed changes neither the
\* callbacks nor the return value of any other call, nor the parser left.
C6_RealtimeInsertion ==
    \A i \in 1 .. Len(calls) :
        calls[i].byte >= 248 =>
            LET without == RunFrom(born, Without(Pushed, i))
            IN  /\ without.calls = Without(calls, i)
                /\ without.parser = Self

\* 90 01 F8 02: the NoteOn was dispatched with the clock inside it.
C6_Witness ==
    /\ Pushed = <<144, 1, 248, 2>>
    /\ Trace = << <<"Clock">>, <<"NoteOn", 0, 1, 2>> >>
    /\ last.value = 144

\* C7: a realtime byte b is returned as it is and invokes its own callback:
\* 0xF8 Clock, 0xFA Start, 0xFB Continue, 0xFC Stop, 0xFE ActiveSensing,
\* 0xFF Reset, and none for 0xF9 and 0xFD.
C7_RealtimeDispatch ==
    last.byte >= 248 =>
        /\ last.value = last.byte
        /\ last.events = CASE last.byte = 248 -> << <<"Clock">> >>
                           [] last.byte = 250 -> << <<"Start">> >>
                           [] last.byte = 251 -> << <<"Continue">> >>
                           [] last.byte = 252 -> << <<"Stop">> >>
                           [] last.byte = 254 -> << <<"ActiveSensing">> >>
                           [] last.byte = 255 -> << <<"Reset">> >>
                           [] OTHER -> << >>

\* The reserved 0xFD arrived inside a message and invoked nothing.
C7_Witness ==
    /\ last.byte = 253 /\ last.value = 253 /\ last.events = << >>
    /\ data_size_ = 1

\* C8: whatever came before, a status byte s in 0x80-0xEF followed by its
\* data bytes invokes nothing until the last of them, and there the
\* dispatch-table event of s and those data bytes (when the Device accepts
\* the channel); a status byte that cuts a message short invokes nothing
\* for that message.
C8_Resynchronizes ==
    /\ (msg.status \in 128 .. 239 /\ msg.found # "running" /\ last.byte < 128) =>
           IF msg.complete
           THEN /\ last.value = msg.status
                /\ last.check =>
                       last.events = DispatchEvents(msg.status, AsData(msg.bytes))
           ELSE last.events = << >> /\ last.value = 0
    /\ (msg.found = "partial" /\ msg.status \in 128 .. 239 /\ last.byte = msg.status) =>
           last.events = << >> /\ last.value = 0

\* A message cut short by C4, then 40: ProgramChange(4, 64) and no more.
C8_Witness ==
    /\ msg.found = "partial" /\ msg.complete /\ msg.status = 196
    /\ last.events = << <<"ProgramChange", 4, 64>> >>

\* C9: a data byte d pushed while running status is 0 invokes BozoByte(d)
\* and nothing else, returns 0, and leaves running status and both data
\* counts 0.
C9_OrphanByte ==
    [][(running_status_ = 0 /\ last'.byte \in 0 .. 127) =>
         /\ last'.events = << <<"BozoByte", last'.byte>> >>
         /\ last'.value = 0
         /\ running_status_' = 0
         /\ data_size_' = 0
         /\ expected_data_size_' = 0]_vars

\* A data byte after other data bytes, none of them attached to a message.
C9_Witness ==
    /\ last.events = << <<"BozoByte", 64>> >>
    /\ running_status_ = 0 /\ data_[0] = 64 /\ data_[1] = 60

\* C10: a channel message completed while CheckChannel answers false invokes
\* nothing, and leaves the parser and the returned value as they are when
\* CheckChannel answers true.
C10_RejectedChannel ==
    [][(last'.asked /\ ~last'.check /\ last'.value \in 128 .. 239) =>
         LET accepted == PushByte(Self, last'.byte, TRUE)
         IN  /\ last'.events = << >>
             /\ accepted.events # << >>
             /\ Self' = accepted.parser
             /\ last'.value = accepted.value
             /\ running_status_' = last'.value
             /\ data_size_' = 0]_vars

\* A NoteOn on channel 0 was completed and refused.
C10_Witness ==
    /\ last.asked /\ ~last.check /\ last.value = 144
    /\ last.events = << >> /\ data_size_ = 0

\* C11: a completed 0x9n message invokes NoteOn(n, data0, data1) when data1
\* is not 0 and NoteOff(n, data0, 0) when it is, with or without a status
\* byte of its own; NoteOn is never invoked with velocity 0.
C11_NoteOnVelocityZero ==
    /\ (Hi(msg.status) = 144 /\ msg.complete /\ last.byte < 128 /\ last.check) =>
           last.events =
               << IF msg.bytes[2] # 0
                  THEN <<"NoteOn", Lo(msg.status), msg.bytes[1], msg.bytes[2]>>
                  ELSE <<"NoteOff", Lo(msg.status), msg.bytes[1], 0>> >>
    /\ \A i \in 1 .. Len(last.events) :
           last.events[i][1] = "NoteOn" => last.events[i][4] # 0

\* 90 .. 3C 00 under running status: NoteOff(0, 60, 0).
C11_Witness ==
    /\ msg.status = 144 /\ msg.found = "running" /\ msg.complete
    /\ last.byte = 0
    /\ last.events = << <<"NoteOff", 0, 60, 0>> >>

\* C12: a completed 0xBn message with data0 in 0x78-0x7F invokes the channel
\* mode callback of the table and never ControlChange; with data0 below
\* 0x78 it invokes ControlChange(n, data0, data1) and nothing else.
C12_ChannelMode ==
    (Hi(msg.status) = 176 /\ msg.complete /\ last.check) =>
        LET n == Lo(msg.status)
            data0 == msg.bytes[1]
            data1 == msg.bytes[2]
        IN  last.events =
                << CASE data0 = 120 -> <<"AllSoundOff", n>>
                     [] data0 = 121 -> <<"ResetAllControllers", n>>
                     [] data0 = 122 -> <<"LocalControl", n, data1>>
                     [] data0 = 123 -> <<"AllNotesOff", n>>
                     [] data0 = 124 -> <<"OmniModeOff", n>>
                     [] data0 = 125 -> <<"OmniModeOn", n>>
                     [] data0 = 126 -> <<"MonoModeOn", n, data1>>
                     [] data0 = 127 -> <<"PolyModeOn", n>>
                     [] data0 < 120 -> <<"ControlChange", n, data0, data1>> >>

\* B0 78 00: AllSoundOff(0).
C12_Witness ==
    /\ msg.status = 176 /\ msg.bytes = <<120, 0>> /\ msg.complete
    /\ last.events = << <<"AllSoundOff", 0>> >>

\* C13: a completed 0xEn message invokes PitchBend(n, data1 * 128 + data0),
\* a value within 0 .. 16383 that 16 bits hold.
C13_PitchBend ==
    (Hi(msg.status) = 224 /\ msg.complete /\ last.check) =>
        /\ last.events = << <<"PitchBend", Lo(msg.status),
                              msg.bytes[2] * 128 + msg.bytes[1]>> >>
        /\ last.events[1][3] \in 0 .. 16383

\* E0 00 40: PitchBend(0, 8192).
C13_Witness ==
    /\ msg.status = 224 /\ msg.bytes = <<0, 64>> /\ msg.complete
    /\ last.events = << <<"PitchBend", 0, 8192>> >>

\* C14: between calls data_size_ <= expected_data_size_, and a count above 0
\* is below the expected one: the data byte that makes them equal has the
\* message dispatched and the count back at 0 within its own call.
C14_CountBelowExpected ==
    [][/\ data_size_' <= expected_data_size_'
       /\ data_size_' > 0 => data_size_' < expected_data_size_'
       /\ (last'.byte \in 0 .. 127 /\ data_size_ + 1 = expected_data_size_) =>
              /\ data_size_' = 0
              /\ last'.index = data_size_
              /\ last'.value = running_status_
              /\ last'.events = MessageReceived(running_status_, data_', last'.check)]_vars

\* The second data byte of a NoteOn made the counts equal and was dispatched.
C14_Witness ==
    /\ last.byte \in 0 .. 127 /\ last.index = 1 /\ last.value = 144
    /\ last.events # << >>
    /\ data_size_ = 0 /\ expected_data_size_ = 2

\* C15: once a channel message of status s has completed, running status
\* stays s and the expected count that of s; each following group of that
\* many data bytes, realtime bytes between them or not, invokes nothing
\* until its last byte and there dispatches one more message of status s.
C15_RunningStatusKept ==
    (msg.found = "running" /\ msg.status \in 128 .. 239) =>
        /\ running_status_ = msg.status
        /\ expected_data_size_ = (IF Hi(msg.status) \in {192, 208} THEN 1 ELSE 2)
        /\ last.byte < 128 =>
               IF msg.complete
               THEN /\ last.value = msg.status
                    /\ Len(msg.bytes) = expected_data_size_
                    /\ last.check =>
                           last.events = DispatchEvents(msg.status, AsData(msg.bytes))
               ELSE last.events = << >> /\ last.value = 0

\* E0 .. 00 40 without a status byte: PitchBend(0, 8192) once more.
C15_Witness ==
    /\ msg.found = "running" /\ msg.status = 224 /\ msg.complete
    /\ last.events = << <<"PitchBend", 0, 8192>> >>
    /\ running_status_ = 224

\* C16: the call that completes a message of status 0xF1-0xF7 leaves running
\* status and the expected count 0, and the data byte pushed next is
\* reported by BozoByte; a data byte pushed under running status 0xF0 is
\* forwarded by SysExByte and leaves running status 0xF0.
C16_OneShotOrSysExStream ==
    [][/\ (last'.byte < 248 /\ last'.value \in 241 .. 247) =>
              running_status_' = 0 /\ expected_data_size_' = 0
       /\ (last.byte < 248 /\ last.value \in 241 .. 247 /\ last'.byte \in 0 .. 127) =>
              last'.events = << <<"BozoByte", last'.byte>> >> /\ last'.value = 0
       /\ (running_status_ = 240 /\ last'.byte \in 0 .. 127) =>
              /\ last'.events = << <<"SysExByte", last'.byte>> >>
              /\ running_status_' = 240]_vars

\* F3 40: the Song Select completed on its data byte and left no status.
C16_Witness ==
    /\ last.byte = 64 /\ last.value = 243
    /\ running_status_ = 0 /\ expected_data_size_ = 0

\* C17 as stated: after a message of any status 0xF0-0xF7 completes,
\* running status and the expected count are both 0.
C17_SystemStatusCleared ==
    (last.byte < 248 /\ last.value \in 240 .. 247) =>
        running_status_ = 0 /\ expected_data_size_ = 0

\* C17 as amended: after a message of status 0xF1-0xF7 completes, running
\* status and the expected count are both 0; after a SysEx payload byte
\* completes under 0xF0, running status is still 0xF0 and the expected
\* count still 1.
C17_OneShotStatusCleared ==
    last.byte < 248 =>
        /\ last.value \in 241 .. 247 =>
               running_status_ = 0 /\ expected_data_size_ = 0
        /\ last.value = 240 =>
               running_status_ = 240 /\ expected_data_size_ = 1 /\ data_size_ = 0

\* F0 3C: the payload byte completed under 0xF0, which stays in force.
C17_Witness ==
    /\ last.byte = 60 /\ last.value = 240
    /\ last.events = << <<"SysExByte", 60>> >>
    /\ running_status_ = 240

\* C18: a message of status 0xF1-0xF6 invokes no callback of its own; its
\* status is returned on the second data byte for 0xF1 and 0xF2, on the
\* first for 0xF3, on the status byte itself for 0xF4-0xF6, and 0 before;
\* the one callback there can be is the SysExEnd of the SysEx its status
\* byte cut short.
C18_SystemCommonAbsorbed ==
    (msg.status \in 241 .. 246 /\ last.byte < 248) =>
        LET needed == CASE msg.status \in {241, 242} -> 2
                        [] msg.status = 243 -> 1
                        [] OTHER -> 0
        IN  /\ Len(msg.bytes) <= needed
            /\ last.value = (IF Len(msg.bytes) = needed THEN msg.status ELSE 0)
            /\ last.events = (IF last.byte = msg.status /\ msg.found = "sysex"
                              THEN << <<"SysExEnd">> >>
                              ELSE << >>)

\* F2 .. ..: the Song Position completed on its second data byte, silently.
C18_Witness ==
    /\ msg.status = 242 /\ Len(msg.bytes) = 2
    /\ last.value = 242 /\ last.events = << >>
    /\ running_status_ = 0

\* C19: every data byte is written at data_[0] or data_[1], data_[2] is
\* never written, and data_size_ never exceeds 2, not even between the
\* increment and the reset inside a call.
C19_BufferHoldsTwo ==
    [][/\ last'.byte \in 0 .. 127 => last'.index \in {0, 1}
       /\ last'.byte >= 128 => last'.index = -1
       /\ last'.index + 1 <= 2
       /\ data_size_' <= 2
       /\ data_'[2] = data_[2]]_vars

\* A second data byte was written at data_[1], data_[2] still as constructed.
C19_Witness ==
    /\ last.byte = 64 /\ last.index = 1
    /\ data_[1] = 64 /\ data_[2] = 255

\* C20: every SysExByte is called with a SysExStart before it and no
\* SysExEnd since that SysExStart; between calls running_status_ is 0xF0
\* exactly when the last of SysExStart and SysExEnd called is SysExStart.
C20_SysExByteInsideSysEx ==
    [][/\ \A i \in 1 .. Len(last'.events) :
              last'.events[i][1] = "SysExByte" =>
                  AfterEvents(framing, SubSeq(last'.events, 1, i - 1)) = "start"
       /\ (running_status_' = 240) <=> (framing' = "start")]_vars

\* A payload byte forwarded inside a SysEx opened after a two-byte message.
C20_Witness ==
    /\ last.events = << <<"SysExByte", 64>> >>
    /\ framing = "start" /\ running_status_ = 240
    /\ data_[1] = 60

====
